---- MODULE Spec2Model ----
(***************************************************************************)
(* Model of the message layer of go-imap's in-memory server:               *)
(*   imapserver.ExtractBodySection / openMessagePart                       *)
(*   imapmemserver.message.{fetch, store, search}, matchDate, matchBytes   *)
(*                                                                         *)
(* A message buffer is modelled at line granularity: msg.buf is a sequence *)
(* of lines (header field, blank, multipart delimiter, closing delimiter,  *)
(* text) and lengths are counted in lines.  The MIME primitives the code   *)
(* calls (ReadHeader, ContentType, NextPart, WriteHeader, Header.Del) are  *)
(* operators over such line sequences.  Strings whose letter case matters  *)
(* (flag names, header keys, search patterns) are sequences of characters. *)
(***************************************************************************)
EXTENDS Integers, Sequences, FiniteSets, TLC

VARIABLES
    msg,        \* the message struct: [uid, buf, t, flags]
    tree,       \* the MIME structure msg.buf was serialised from (history)
    item,       \* the imap.FetchItemBodySection handed to ExtractBodySection
    result,     \* what ExtractBodySection returned
    op,         \* the last operation applied to msg: "none", "store", "search", "date"
    storeArg,   \* the imap.StoreFlags of the last store
    prevFlags,  \* msg.flags before the last store (history)
    lastStore,  \* per flag name, what the last store touching it did (history)
    seqNum,     \* the sequence number handed to search
    criteria,   \* the imap.SearchCriteria handed to search
    found,      \* <<b>> once search or matchDate returned b, <<>> before
    options,    \* the imap.FetchOptions handed to fetch
    pc,         \* where fetch stands: "idle", "attrs", "section", "write",
                \* "close", "end", "done"
    secIdx,     \* index of the body section fetch is at (the range loop)
    writeErr,   \* the error wc.Write returned for the current section
    wlog,       \* the calls made on the response writer and section writers
    ret         \* the error fetch returned

extractVars == <<tree, item, result>>
flagVars    == <<storeArg, prevFlags, lastStore>>
searchVars  == <<seqNum, criteria, found>>
fetchVars   == <<options, pc, secIdx, writeErr, wlog, ret>>
vars == <<msg, op, extractVars, flagVars, searchVars, fetchVars>>

(***************************************************************************)
(* Strings: strings.ToLower, textproto.CanonicalMIMEHeaderKey              *)
(***************************************************************************)
UpperLetters == <<"A","B","C","D","E","F","G","H","I","J","K","L","M",
                  "N","O","P","Q","R","S","T","U","V","W","X","Y","Z">>
LowerLetters == <<"a","b","c","d","e","f","g","h","i","j","k","l","m",
                  "n","o","p","q","r","s","t","u","v","w","x","y","z">>

UpperSet == {UpperLetters[i] : i \in DOMAIN UpperLetters}
LowerSet == {LowerLetters[i] : i \in DOMAIN LowerLetters}
LowerTable ==
    [c \in UpperSet |->
        LowerLetters[CHOOSE i \in DOMAIN UpperLetters : UpperLetters[i] = c]]
UpperTable ==
    [c \in LowerSet |->
        UpperLetters[CHOOSE i \in DOMAIN LowerLetters : LowerLetters[i] = c]]

ToLowerChar(c) == IF c \in UpperSet THEN LowerTable[c] ELSE c
ToUpperChar(c) == IF c \in LowerSet THEN UpperTable[c] ELSE c

\* strings.ToLower
ToLower(s) == [i \in 1..Len(s) |-> ToLowerChar(s[i])]

\* textproto.CanonicalMIMEHeaderKey: first letter and letters after '-' upper,
\* the rest lower.
CanonicalKey(k) ==
    [i \in 1..Len(k) |->
        IF i = 1 \/ k[i-1] = "-" THEN ToUpperChar(k[i]) ELSE ToLowerChar(k[i])]

\* Two strings are the same up to letter case (stated without ToLower).
SameLetter(a, b) ==
    \/ a = b
    \/ \E i \in DOMAIN UpperLetters :
          {a, b} = {UpperLetters[i], LowerLetters[i]}
EqFold(s, u) == Len(s) = Len(u) /\ \A i \in 1..Len(s) : SameLetter(s[i], u[i])

\* bytes.Contains / strings.Contains
Contains(s, pat) ==
    \E i \in 0..(Len(s) - Len(pat)) : SubSeq(s, i + 1, i + Len(pat)) = pat

(***************************************************************************)
(* Lines of a message buffer                                               *)
(***************************************************************************)
NoMediaType == <<"", "">>
\* A time.Time: an instant (in units since the zero time, January 1 of year 1
\* UTC) and the offset of its zone; a Date field also says whether it parses.
Time(inst, off) == [inst |-> inst, off |-> off]
ZeroTime    == Time(0, 0)
NoDate      == [ok |-> FALSE, inst |-> 0, off |-> 0]

\* "Key: value"
FieldLine(k, v) ==
    [t |-> "field", k |-> k, v |-> v, mt |-> NoMediaType, b |-> "", d |-> NoDate]
\* "Content-Type: type/subtype; boundary=b"
ContentTypeLine(k, mt, b) ==
    [t |-> "field", k |-> k, v |-> <<>>, mt |-> mt, b |-> b, d |-> NoDate]
\* "Date: ..." carrying the time the date parser yields
DateLine(k, d) ==
    [t |-> "field", k |-> k, v |-> <<>>, mt |-> NoMediaType, b |-> "", d |-> d]
BlankLine == [t |-> "blank", k |-> <<>>, v |-> <<>>, mt |-> NoMediaType, b |-> "", d |-> NoDate]
\* "--b"
DelimLine(b) == [t |-> "delim", k |-> <<>>, v |-> <<>>, mt |-> NoMediaType, b |-> b, d |-> NoDate]
\* "--b--"
FinalLine(b) == [t |-> "final", k |-> <<>>, v |-> <<>>, mt |-> NoMediaType, b |-> b, d |-> NoDate]
\* a line of body text (no colon: malformed where a header line is expected)
TextLine(v) == [t |-> "text", k |-> <<>>, v |-> v, mt |-> NoMediaType, b |-> "", d |-> NoDate]

\* An io.Reader: the lines still to be read; err says that reading past them
\* fails (io.ErrUnexpectedEOF of a part cut short) instead of ending cleanly.
Reader(lines, err) == [lines |-> lines, err |-> err]

\* bytes.NewReader(buf)
NewReader(buf) == Reader(buf, FALSE)

(***************************************************************************)
(* MIME primitives (go-message textproto)                                  *)
(***************************************************************************)
RECURSIVE ReadHeaderFrom(_, _)
ReadHeaderFrom(r, acc) ==
    IF r.lines = <<>>
    THEN [header |-> acc, rest |-> r, err |-> r.err]
    ELSE LET l    == Head(r.lines)
             rest == Reader(Tail(r.lines), r.err)
         IN  IF l.t = "blank" THEN [header |-> acc, rest |-> rest, err |-> FALSE]
             ELSE IF l.t = "field" THEN ReadHeaderFrom(rest, Append(acc, l))
             ELSE [header |-> acc, rest |-> rest, err |-> TRUE]

\* textproto.ReadHeader: the fields up to the blank line; a line that is no
\* field is an error, and the fields read so far are still returned.
ReadHeader(r) == ReadHeaderFrom(r, <<>>)

\* textproto.WriteHeader: the fields in their order, then the blank line.
WriteHeader(header) == header \o <<BlankLine>>

ContentTypeKey == <<"C","o","n","t","e","n","t","-","T","y","p","e">>

\* Header.Has
Has(header, k) ==
    \E i \in 1..Len(header) : CanonicalKey(header[i].k) = CanonicalKey(k)

\* Header.Values
Values(header, k) ==
    SelectSeq(header, LAMBDA f : CanonicalKey(f.k) = CanonicalKey(k))

\* gomessage.Header.ContentType: text/plain when the field is absent.
ContentType(header) ==
    IF Has(header, ContentTypeKey)
    THEN LET f == Head(Values(header, ContentTypeKey))
         IN  [mediaType |-> f.mt, boundary |-> f.b]
    ELSE [mediaType |-> <<"text", "plain">>, boundary |-> ""]

\* strings.HasPrefix(mediaType, "multipart/")
IsMultipart(mediaType) == mediaType[1] = "multipart"

\* Index of the first delimiter or closing delimiter of boundary b, 0 if none.
RECURSIVE BoundaryAt(_, _, _)
BoundaryAt(lines, b, i) ==
    IF i > Len(lines) THEN 0
    ELSE IF lines[i].t \in {"delim", "final"} /\ lines[i].b = b THEN i
    ELSE BoundaryAt(lines, b, i + 1)

NoPart == [err |-> TRUE, header |-> <<>>, body |-> Reader(<<>>, FALSE),
           next |-> Reader(<<>>, FALSE)]

\* MultipartReader.NextPart on the unread remainder r of a multipart body:
\* skips to the next delimiter, reads the part's header; the part's body
\* runs to the following delimiter, and is cut short when there is none.
NextPart(r, b) ==
    IF b = "" THEN NoPart
    ELSE LET i == BoundaryAt(r.lines, b, 1)
         IN  IF i = 0 \/ r.lines[i].t = "final" THEN NoPart
             ELSE LET rh == ReadHeader(Reader(SubSeq(r.lines, i + 1, Len(r.lines)), r.err))
                      j  == BoundaryAt(rh.rest.lines, b, 1)
                  IN  IF rh.err THEN NoPart
                      ELSE IF j = 0
                      THEN [err |-> FALSE, header |-> rh.header,
                            body |-> Reader(rh.rest.lines, TRUE),
                            next |-> Reader(<<>>, TRUE)]
                      ELSE [err |-> FALSE, header |-> rh.header,
                            body |-> Reader(SubSeq(rh.rest.lines, 1, j - 1), FALSE),
                            next |-> Reader(SubSeq(rh.rest.lines, j, Len(rh.rest.lines)),
                                            r.err)]

(***************************************************************************)
(* imapserver.openMessagePart                                              *)
(***************************************************************************)
MessageTypes == {<<"message", "rfc822">>, <<"message", "global">>}
NoParent     == NoMediaType

\* hdrErr records the error of ReadHeader that the code discards.
openMessagePart(header, body, parentMediaType) ==
    LET declared  == ContentType(header).mediaType
        mediaType == IF ~Has(header, ContentTypeKey)
                        /\ parentMediaType = <<"multipart", "digest">>
                     THEN <<"message", "rfc822">>
                     ELSE declared
    IN  IF mediaType \in MessageTypes
        THEN LET rh == ReadHeader(body)
             IN  [header |-> rh.header, body |-> rh.rest, hdrErr |-> rh.err]
        ELSE [header |-> header, body |-> body, hdrErr |-> FALSE]

(***************************************************************************)
(* imapserver.ExtractBodySection                                           *)
(***************************************************************************)
\* Faulty variant of PartLoop: the part number taken as a 0-based index.
RECURSIVE PartLoopZeroBased(_, _, _, _)
PartLoopZeroBased(mr, boundary, partNum, j) ==
    IF j > partNum + 1 THEN NoPart
    ELSE LET p == NextPart(mr, boundary)
         IN  IF p.err THEN NoPart
             ELSE IF j = partNum + 1 THEN p
             ELSE PartLoopZeroBased(p.next, boundary, partNum, j + 1)

RECURSIVE PartLoop(_, _, _, _)
\* for j := 1; j <= partNum; j++ { p, err := mr.NextPart() ... }
PartLoop(mr, boundary, partNum, j) ==
    IF j > partNum THEN NoPart
    ELSE LET p == NextPart(mr, boundary)
         IN  IF p.err THEN NoPart
             ELSE IF j = partNum THEN p
             ELSE PartLoop(p.next, boundary, partNum, j + 1)

NotFound(absent) ==
    [found |-> FALSE, header |-> <<>>, body |-> Reader(<<>>, FALSE),
     parent |-> NoParent, absent |-> absent]

\* The loop over partPath.  absent collects the data-absence conditions met
\* on the way: "index" (a part number that selects nothing, or a multipart
\* body that yields no such part), "nested" (the header of an embedded
\* message could not be read in openMessagePart).
RECURSIVE ResolvePath(_, _, _, _, _, _)
ResolvePath(header, body, parentMediaType, partPath, i, absent) ==
    IF i > Len(partPath)
    THEN [found |-> TRUE, header |-> header, body |-> body,
          parent |-> parentMediaType, absent |-> absent]
    ELSE LET partNum == partPath[i]
             o       == openMessagePart(header, body, parentMediaType)
             ct      == ContentType(o.header)
             seen    == IF o.hdrErr THEN absent \cup {"nested"} ELSE absent
         IN  IF ~IsMultipart(ct.mediaType)
             THEN IF partNum # 1
                  THEN NotFound(seen \cup {"index"})
                  ELSE ResolvePath(o.header, o.body, parentMediaType, partPath, i + 1, seen)
             ELSE LET p == PartLoop(o.body, ct.boundary, partNum, 1)
                  IN  IF p.err
                      THEN NotFound(seen \cup {"index"})
                      ELSE ResolvePath(p.header, p.body, ct.mediaType, partPath, i + 1, seen)

\* Lines 25-75: read the top-level header, drop the leading 1 of a
\* non-multipart message's path, walk the path.
Resolution(r, it) ==
    LET rh == ReadHeader(r)
    IN  IF rh.err THEN NotFound({"header"})
        ELSE LET mediaType == ContentType(rh.header).mediaType
                 partPath  == IF ~IsMultipart(mediaType) /\ Len(it.Part) > 0
                                 /\ it.Part[1] = 1
                              THEN Tail(it.Part)
                              ELSE it.Part
             IN  ResolvePath(rh.header, rh.rest, NoParent, partPath, 1, {})

\* Lines 85-95: keep only the fields named in HeaderFields, if any is named.
KeepFields(header, fields) ==
    IF Len(fields) > 0
    THEN SelectSeq(header, LAMBDA f :
            \E i \in 1..Len(fields) :
                ToLower(fields[i]) = ToLower(CanonicalKey(f.k)))
    ELSE header

\* Faulty variant of HeaderDel: the key compared as spelled.
HeaderDelExact(header, k) == SelectSeq(header, LAMBDA f : f.k # k)

\* textproto Header.Del: removes every field of that canonical key.
HeaderDel(header, k) ==
    SelectSeq(header, LAMBDA f : CanonicalKey(f.k) # CanonicalKey(k))

RECURSIVE DelFields(_, _, _)
\* Lines 96-98
DelFields(header, ks, i) ==
    IF i > Len(ks) THEN header
    ELSE DelFields(HeaderDel(header, ks[i]), ks, i + 1)

FilterHeader(header, it) ==
    DelFields(KeepFields(header, it.HeaderFields), it.HeaderFieldsNot, 1)

\* Width of the signed integers of the partial range (int64 in the code).
IntBits == 6
MaxInt  == 2^(IntBits - 1) - 1
MinInt  == -(2^(IntBits - 1))
\* two's-complement wrap of a sum
WrapInt(n) == ((n - MinInt) % 2^IntBits) + MinInt

NilResult     == [kind |-> "nil", b |-> <<>>]
PanicResult   == [kind |-> "panic", b |-> <<>>]
BytesResult(b) == [kind |-> "bytes", b |-> b]

\* Lines 123-135.  b[lo:hi] panics unless 0 <= lo <= hi <= cap(b).
ExtractPartial(b, partial) ==
    IF ~partial.set THEN BytesResult(b)
    ELSE LET end == WrapInt(partial.Offset + partial.Size)
         IN  IF partial.Offset > Len(b) THEN NilResult
             ELSE LET hi == IF end > Len(b) THEN Len(b) ELSE end
                  IN  IF partial.Offset < 0 \/ hi < partial.Offset
                      THEN PanicResult
                      ELSE BytesResult(SubSeq(b, partial.Offset + 1, hi))

\* Faulty variant of WritesHeader: the header written for every whole section.
WritesHeaderWhole(it) == it.Specifier # "TEXT"

\* Lines 103-109
WritesHeader(it) ==
    CASE it.Specifier = ""     -> Len(it.Part) = 0
      [] it.Specifier = "TEXT" -> FALSE
      [] OTHER                 -> TRUE

\* Lines 116-121
CopiesBody(it) == it.Specifier \in {"", "TEXT"}

\* Lines 77-82: the entity whose header and body are written, once the path
\* is resolved (HEADER and TEXT of a part open it as a message).
SectionEntity(res, it) ==
    IF Len(it.Part) > 0 /\ it.Specifier \in {"HEADER", "TEXT"}
    THEN openMessagePart(res.header, res.body, res.parent)
    ELSE [header |-> res.header, body |-> res.body, hdrErr |-> FALSE]

ExtractBodySection(r, it) ==
    LET res == Resolution(r, it)
    IN  IF ~res.found THEN NilResult
        ELSE LET o      == SectionEntity(res, it)
                 header == FilterHeader(o.header, it)
             IN  IF CopiesBody(it) /\ o.body.err THEN NilResult
                 ELSE ExtractPartial(
                        (IF WritesHeader(it) THEN WriteHeader(header) ELSE <<>>)
                            \o (IF CopiesBody(it) THEN o.body.lines ELSE <<>>),
                        it.Partial)

(***************************************************************************)
(* imapmemserver: canonicalFlag, message.store                             *)
(***************************************************************************)
\* strings.ToLower of the flag name
canonicalFlag(flag) == ToLower(flag)

StoreFlags(o, flags) == [Op |-> o, Flags |-> flags]
NoStore == StoreFlags("none", <<>>)

canonicalFlags(flags) == {canonicalFlag(flags[i]) : i \in 1..Len(flags)}

\* Faulty variant of store: set falls through without emptying the map.
storeKeepingOnSet(flags, st) ==
    CASE st.Op \in {"set", "add"} -> flags \cup canonicalFlags(st.Flags)
      [] st.Op = "del"            -> flags \ canonicalFlags(st.Flags)

\* message.store: the flag set after the directive (set empties the map and
\* falls through to add).
store(flags, st) ==
    CASE st.Op = "set" -> {} \cup canonicalFlags(st.Flags)
      [] st.Op = "add" -> flags \cup canonicalFlags(st.Flags)
      [] st.Op = "del" -> flags \ canonicalFlags(st.Flags)

(***************************************************************************)
(* imapmemserver: matchDate, matchBytes, message.search                    *)
(***************************************************************************)
\* Granularity of the clock: instants per day.
UnitsPerDay == 4

\* Faulty variant of CalendarDay: the day of the instant in UTC, the zone dropped.
CalendarDayUTC(t) == t.inst \div UnitsPerDay

\* t.Year(), t.Month(), t.Day(): the day of t in t's own zone, as a day number.
CalendarDay(t) == (t.inst + t.off) \div UnitsPerDay

\* time.Date(y, m, d, 0, 0, 0, 0, time.UTC)
DateUTC(day) == Time(day * UnitsPerDay, 0)

IsZero(t)    == t.inst = 0
Before(t, u) == t.inst < u.inst

matchDate(t, since, before) ==
    LET d == DateUTC(CalendarDay(t))
    IN  IF ~IsZero(since) /\ Before(d, since) THEN FALSE
        ELSE IF ~IsZero(before) /\ ~Before(d, before) THEN FALSE
        ELSE TRUE

\* The characters of a line of the buffer.
LineText(l) ==
    CASE l.t = "field" -> l.k \o <<":">> \o l.v
      [] l.t = "text"  -> l.v
      [] OTHER         -> <<>>

\* bytes.Contains(bytes.ToLower(buf), bytes.ToLower(s)); a pattern does not
\* run over a line end.
BufContains(buf, pat) ==
    \E i \in 1..Len(buf) : Contains(ToLower(LineText(buf[i])), ToLower(pat))

matchBytes(buf, patterns) ==
    IF Len(patterns) = 0 THEN TRUE
    ELSE \A i \in 1..Len(patterns) : BufContains(buf, patterns[i])

\* mail.Header.Date: the time of the Date field, an error when it does not
\* parse or is missing.
HeaderDate(header) ==
    IF Has(header, <<"D","a","t","e">>)
    THEN LET f == Head(Values(header, <<"D","a","t","e">>))
         IN  [err |-> ~f.d.ok, t |-> Time(f.d.inst, f.d.off)]
    ELSE [err |-> TRUE, t |-> ZeroTime]

\* Lines 147-164: one header criterion.
matchHeaderField(header, fc) ==
    IF ~Has(header, fc.Key) THEN FALSE
    ELSE IF fc.Value = <<>> THEN TRUE
    ELSE \E i \in 1..Len(Values(header, fc.Key)) :
            Contains(ToLower(Values(header, fc.Key)[i].v), ToLower(fc.Value))

\* Faulty variant of largerFails: the bound taken as inclusive.
largerFailsInclusive(size, c) == c.Larger # 0 /\ size < c.Larger

\* Lines 132-134
largerFails(size, c) == c.Larger # 0 /\ size <= c.Larger
\* Lines 135-137
smallerFails(size, c) == c.Smaller # 0 /\ size >= c.Smaller

\* Faulty variant of flagFails: the required flag looked up as spelled.
flagFailsAsIs(flags, c) == \E i \in 1..Len(c.Flag) : c.Flag[i] \notin flags

\* Lines 121-125
flagFails(flags, c) ==
    \E i \in 1..Len(c.Flag) : canonicalFlag(c.Flag[i]) \notin flags
\* Lines 126-130
notFlagFails(flags, c) ==
    \E i \in 1..Len(c.NotFlag) : canonicalFlag(c.NotFlag[i]) \in flags

RECURSIVE search(_, _, _)
search(m, n, c) ==
    LET rh     == ReadHeader(NewReader(m.buf))
        header == rh.header
        sent   == HeaderDate(header)
    IN  IF \E i \in 1..Len(c.SeqNum) : n = 0 \/ n \notin c.SeqNum[i] THEN FALSE
        ELSE IF \E i \in 1..Len(c.UID) : m.uid \notin c.UID[i] THEN FALSE
        ELSE IF ~matchDate(m.t, c.Since, c.Before) THEN FALSE
        ELSE IF flagFails(m.flags, c) THEN FALSE
        ELSE IF notFlagFails(m.flags, c) THEN FALSE
        ELSE IF largerFails(Len(m.buf), c) THEN FALSE
        ELSE IF smallerFails(Len(m.buf), c) THEN FALSE
        ELSE IF ~matchBytes(m.buf, c.Text) THEN FALSE
        ELSE IF \E i \in 1..Len(c.Header) : ~matchHeaderField(header, c.Header[i])
             THEN FALSE
        ELSE IF (~IsZero(c.SentSince) \/ ~IsZero(c.SentBefore))
                /\ (sent.err \/ ~matchDate(sent.t, c.SentSince, c.SentBefore))
             THEN FALSE
        ELSE IF Len(c.Body) > 0 /\ ~matchBytes(rh.rest.lines, c.Body) THEN FALSE
        ELSE IF \E i \in 1..Len(c.Not) : search(m, n, c.Not[i]) THEN FALSE
        ELSE IF \E i \in 1..Len(c.Or) :
                    ~search(m, n, c.Or[i][1]) /\ ~search(m, n, c.Or[i][2])
             THEN FALSE
        ELSE TRUE

(***************************************************************************)
(* Messages: MIME structures and the buffers they serialise to             *)
(***************************************************************************)
Leaf(hdr, body)    == [kind |-> "leaf",  hdr |-> hdr, body |-> body, kids |-> <<>>]
Multi(hdr, kids)   == [kind |-> "multi", hdr |-> hdr, body |-> <<>>, kids |-> kids]
Embedded(hdr, m)   == [kind |-> "msg",   hdr |-> hdr, body |-> <<>>, kids |-> <<m>>]
NoTree             == Leaf(<<>>, <<>>)

RECURSIVE Serialize(_)
RECURSIVE SerializeKids(_, _, _)
\* The body of an entity as it stands in the buffer.
SerializeBody(t) ==
    CASE t.kind = "leaf"  -> t.body
      [] t.kind = "msg"   -> Serialize(t.kids[1])
      [] t.kind = "multi" ->
            SerializeKids(t.kids, ContentType(t.hdr).boundary, 1)
                \o <<FinalLine(ContentType(t.hdr).boundary)>>
SerializeKids(kids, b, i) ==
    IF i > Len(kids) THEN <<>>
    ELSE <<DelimLine(b)>> \o Serialize(kids[i]) \o SerializeKids(kids, b, i + 1)
Serialize(t) == t.hdr \o <<BlankLine>> \o SerializeBody(t)

KSubject == <<"S","u","b","j","e","c","t">>
KTo      == <<"T","o">>
KDate    == <<"D","a","t","e">>
KUpper(k) == [i \in 1..Len(k) |-> ToUpperChar(k[i])]

Hello == <<"h","e","l","l","o">>
Spam  == <<"S","p","a","m">>
World == <<"w","o","r","l","d">>

TextPlain  == ContentTypeLine(ContentTypeKey, <<"text", "plain">>, "")
TextHtml   == ContentTypeLine(ToLower(ContentTypeKey), <<"text", "html">>, "")
Rfc822     == ContentTypeLine(ContentTypeKey, <<"message", "rfc822">>, "")
MixedX     == ContentTypeLine(ContentTypeKey, <<"multipart", "mixed">>, "X")
MixedY     == ContentTypeLine(KUpper(ContentTypeKey), <<"multipart", "mixed">>, "Y")
DigestX    == ContentTypeLine(ContentTypeKey, <<"multipart", "digest">>, "X")
MixedNoBoundary == ContentTypeLine(ContentTypeKey, <<"multipart", "mixed">>, "")

PlainMsg ==
    Leaf(<<FieldLine(KSubject, Hello), FieldLine(KTo, World)>>,
         <<TextLine(Hello), TextLine(World)>>)
\* the same key in three spellings, another key between them
MixedCaseMsg ==
    Leaf(<<FieldLine(KUpper(KSubject), Hello), FieldLine(KTo, World),
           FieldLine(ToLower(KSubject), Spam), TextPlain>>,
         <<TextLine(Spam)>>)
PartA == Leaf(<<TextPlain>>, <<TextLine(Hello)>>)
PartB == Leaf(<<TextHtml, FieldLine(KSubject, Spam)>>, <<TextLine(World), TextLine(Spam)>>)
PartC == Leaf(<<>>, <<TextLine(Spam)>>)
InnerMulti == Multi(<<MixedY>>, <<PartC, PartA>>)
Mixed2 == Multi(<<FieldLine(KSubject, Hello), MixedX>>, <<PartA, PartB>>)
Mixed3 ==
    Multi(<<MixedX, FieldLine(KTo, World)>>,
          <<PartB, Embedded(<<Rfc822>>, PlainMsg), InnerMulti>>)
\* children of a digest are messages unless they say otherwise
Digest == Multi(<<DigestX>>, <<Leaf(<<>>, Serialize(PlainMsg)), PartA>>)
EmptyMulti == Multi(<<MixedX>>, <<>>)
NoBoundaryMulti == Multi(<<MixedNoBoundary>>, <<PartA>>)
\* an embedded message whose own header cannot be read
BrokenInner == Leaf(<<FieldLine(KTo, World), TextLine(Spam)>>, <<TextLine(Hello)>>)
BadEmbedded == Multi(<<MixedX>>, <<Embedded(<<Rfc822>>, BrokenInner), PartA>>)
TopEmbedded == Embedded(<<Rfc822, FieldLine(KTo, Hello)>>, Mixed2)

Trees == {PlainMsg, MixedCaseMsg, Mixed2, Mixed3, Digest, EmptyMulti,
          NoBoundaryMulti, BadEmbedded, TopEmbedded}

\* Every entity header of t is made of fields only.
HeaderReadable(t) == \A i \in 1..Len(t.hdr) : t.hdr[i].t = "field"
\* A multipart entity whose framing NextPart accepts for every child.
WellFramed(t) ==
    /\ t.kind = "multi"
    /\ HeaderReadable(t)
    /\ ContentType(t.hdr).boundary # ""
    /\ \A i \in 1..Len(t.kids) :
          /\ HeaderReadable(t.kids[i])
          /\ BoundaryAt(Serialize(t.kids[i]), ContentType(t.hdr).boundary, 1) = 0

(***************************************************************************)
(* Requests                                                                *)
(***************************************************************************)
MaxPartNum == 3
MaxPathLen == 2

RECURSIVE PathsOfLen(_)
PathsOfLen(n) ==
    IF n = 0 THEN {<<>>}
    ELSE {Append(p, k) : p \in PathsOfLen(n - 1), k \in 0..MaxPartNum}
Paths == UNION {PathsOfLen(n) : n \in 0..MaxPathLen}

Specifiers == {"", "HEADER", "TEXT", "MIME"}
NoPartial  == [set |-> FALSE, Offset |-> 0, Size |-> 0]
Partial(offset, size) == [set |-> TRUE, Offset |-> offset, Size |-> size]

BodySection(part, specifier, fields, fieldsNot, partial) ==
    [Part |-> part, Specifier |-> specifier, HeaderFields |-> fields,
     HeaderFieldsNot |-> fieldsNot, Partial |-> partial]

FieldLists == {<<>>, <<KSubject>>, <<ToLower(KSubject)>>, <<KUpper(KTo)>>,
               <<KTo, KUpper(KSubject)>>, <<KDate>>, <<ToLower(ContentTypeKey)>>}

\* Requests that walk paths, and requests that filter header fields.
PathItems ==
    {BodySection(p, s, <<>>, <<>>, NoPartial) : p \in Paths, s \in Specifiers}
FilterItems ==
    {BodySection(p, s, f, n, NoPartial) :
        p \in {<<>>, <<1>>, <<2>>}, s \in {"", "HEADER", "MIME"},
        f \in FieldLists, n \in FieldLists}

NoItem   == BodySection(<<>>, "", <<>>, <<>>, NoPartial)
NoResult == [kind |-> "none", b |-> <<>>]

Message(buf) == [uid |-> 1, buf |-> buf, t |-> ZeroTime, flags |-> {}]

(***************************************************************************)
(* Flags, search criteria, times                                           *)
(***************************************************************************)
Seen    == <<"\\","S","e","e","n">>
Flagged == <<"\\","F","l","a","g","g","e","d">>
FlagNames == {Seen, ToLower(Seen), KUpper(Seen), Flagged, ToLower(Flagged)}

MaxStoreFlags == 2
RECURSIVE FlagLists(_)
FlagLists(n) ==
    IF n = 0 THEN {<<>>}
    ELSE FlagLists(n - 1)
            \cup {Append(l, f) : l \in {x \in FlagLists(n - 1) : Len(x) = n - 1},
                                 f \in FlagNames}
StoreArgs ==
    {StoreFlags(o, l) : o \in {"set", "add", "del"}, l \in FlagLists(MaxStoreFlags)}

NoCriteria ==
    [SeqNum |-> <<>>, UID |-> <<>>, Since |-> ZeroTime, Before |-> ZeroTime,
     Flag |-> <<>>, NotFlag |-> <<>>, Larger |-> 0, Smaller |-> 0,
     Text |-> <<>>, Header |-> <<>>, SentSince |-> ZeroTime,
     SentBefore |-> ZeroTime, Body |-> <<>>, Not |-> <<>>, Or |-> <<>>]

NotOf(c)   == [NoCriteria EXCEPT !.Not = <<c>>]
OrOf(a, b) == [NoCriteria EXCEPT !.Or = <<<<a, b>>>>]

NoHistory == [f \in FlagNames |-> "none"]

FlagsIdle   == storeArg = NoStore /\ prevFlags = {} /\ lastStore = NoHistory
SearchIdle  == seqNum = 0 /\ criteria = NoCriteria /\ found = <<>>
ExtractIdle == tree = NoTree /\ item = NoItem /\ result = NoResult

NoError == [at |-> "nil", i |-> 0]
\* the error a call on a writer returned: which call, on which section
Error(at, i) == [at |-> at, i |-> i]
NoOptions ==
    [Flags |-> FALSE, InternalDate |-> FALSE, RFC822Size |-> FALSE,
     Envelope |-> FALSE, BodyStructure |-> FALSE, BodySection |-> <<>>]
FetchIdle ==
    /\ options = NoOptions /\ pc = "idle" /\ secIdx = 0
    /\ writeErr = NoError /\ wlog = <<>> /\ ret = NoError

(***************************************************************************)
(* Specification of ExtractBodySection over messages and requests          *)
(***************************************************************************)
\* A buffer is the serialisation of a structure, whole or cut short.  Paths
\* are walked over every buffer, header filters applied to the whole ones.
InitExtract ==
    /\ tree \in Trees
    /\ \/ /\ msg = Message(Serialize(tree))
          /\ item \in FilterItems
       \/ /\ \E n \in 0..Len(Serialize(tree)) :
                msg = Message(SubSeq(Serialize(tree), 1, n))
          /\ item \in PathItems
    /\ result = NoResult
    /\ op = "none" /\ FlagsIdle /\ SearchIdle /\ FetchIdle

Extract ==
    /\ result = NoResult
    /\ result' = ExtractBodySection(NewReader(msg.buf), item)
    /\ UNCHANGED <<msg, op, tree, item, flagVars, searchVars, fetchVars>>

NextExtract == Extract

SpecExtract == InitExtract /\ [][NextExtract]_vars

(***************************************************************************)
(* Specification of the partial range of ExtractBodySection                *)
(***************************************************************************)
PartialItems ==
    {BodySection(p, "", <<>>, <<>>, Partial(o, z)) :
        p \in {<<>>, <<1>>}, o \in 0..MaxInt, z \in 0..MaxInt}

InitPartial ==
    /\ tree \in {PlainMsg, Mixed2}
    /\ msg = Message(Serialize(tree))
    /\ item \in PartialItems
    /\ result = NoResult
    /\ op = "none" /\ FlagsIdle /\ SearchIdle /\ FetchIdle

SpecPartial == InitPartial /\ [][NextExtract]_vars

(***************************************************************************)
(* Properties of ExtractBodySection                                        *)
(***************************************************************************)
Extracted == result # NoResult
Whole     == msg.buf = Serialize(tree)
Min(a, b) == IF a < b THEN a ELSE b

\* The same request for another path, specifier or range.
Section(it) == ExtractBodySection(NewReader(msg.buf), it)

\* C1: on a multipart message with N top-level children and specifier none,
\* path [k] with 1 <= k <= N yields the body of the k-th child as it stands
\* in the buffer, and paths [0] and [N+1] yield nil.
C1_ChildByIndex ==
    (/\ Extracted /\ Whole /\ WellFramed(tree)
     /\ Len(item.Part) = 1 /\ item.Specifier = "" /\ ~item.Partial.set)
    => LET k == item.Part[1]
           N == Len(tree.kids)
       IN  /\ k \in 1..N => result = BytesResult(SerializeBody(tree.kids[k]))
           /\ k \in {0, N + 1} => result = NilResult

C1_Witness ==
    /\ Extracted /\ Whole /\ tree = Mixed3
    /\ item = BodySection(<<3>>, "", <<>>, <<>>, NoPartial)
    /\ result = BytesResult(SerializeBody(InnerMulti))

\* The message in the buffer is not a multipart one.
NonMultipart ==
    ~IsMultipart(ContentType(ReadHeader(NewReader(msg.buf)).header).mediaType)
PlainRequest(path) == BodySection(path, "", <<>>, <<>>, NoPartial)

\* C2 as claimed: on a non-multipart message, path [1] with specifier none
\* returns the same bytes as the empty path with specifier none.
C2_SameAsWholeMessage ==
    (Extracted /\ NonMultipart /\ item = PlainRequest(<<1>>))
    => result = Section(PlainRequest(<<>>))

\* C2 as amended: on a non-multipart message, path [1] with specifier none
\* returns the body alone: what the empty path returns with specifier TEXT,
\* and what the empty path returns with specifier none less the header that
\* precedes it.
C2_BodyOnly ==
    (Extracted /\ NonMultipart /\ item = PlainRequest(<<1>>))
    => /\ result = Section(BodySection(<<>>, "TEXT", <<>>, <<>>, NoPartial))
       /\ result.kind = Section(PlainRequest(<<>>)).kind
       /\ Section(PlainRequest(<<>>)).b
            = (IF result.kind = "bytes"
               THEN WriteHeader(ReadHeader(NewReader(msg.buf)).header)
               ELSE <<>>) \o result.b

C2_Witness ==
    /\ Extracted /\ Whole /\ tree = PlainMsg
    /\ item = PlainRequest(<<1>>)
    /\ result = BytesResult(PlainMsg.body)

\* C3: when resolving the path meets a data-absence condition (top-level
\* header unreadable, part number selecting nothing, multipart framing
\* missing or malformed, header of an embedded message unreadable), the
\* result is nil.
C3_AbsenceIsNil ==
    (Extracted /\ Resolution(NewReader(msg.buf), item).absent # {})
    => result = NilResult

\* C4: for non-negative offset and size the partial range never fails and
\* returns the bytes of the section from min(offset, L) to min(offset+size, L).
C4_PartialClamp ==
    (Extracted /\ item.Partial.set /\ item.Partial.Offset >= 0
        /\ item.Partial.Size >= 0)
    => LET b  == Section([item EXCEPT !.Partial = NoPartial]).b
           L  == Len(b)
           lo == Min(item.Partial.Offset, L)
           hi == Min(item.Partial.Offset + item.Partial.Size, L)
       IN  /\ result.kind \in {"bytes", "nil"}
           /\ result.b = SubSeq(b, lo + 1, hi)

\* The header of the entity a request addresses, before filtering.
AddressedHeader ==
    SectionEntity(Resolution(NewReader(msg.buf), item), item).header
\* The fields of the header the result starts with.
ResultHeader == ReadHeader(NewReader(result.b)).header
Named(f, names) == \E i \in 1..Len(names) : EqFold(f.k, names[i])

\* C7: with a non-empty include list the written header holds only fields
\* named in it, ignoring case; no written field is named in the exclude
\* list, ignoring case, also when it is in the include list too; the other
\* fields are kept in their order.
C7_HeaderFilter ==
    (Extracted /\ result.kind = "bytes" /\ WritesHeader(item))
    => /\ Len(item.HeaderFields) > 0
            => \A i \in 1..Len(ResultHeader) :
                    Named(ResultHeader[i], item.HeaderFields)
       /\ \A i \in 1..Len(ResultHeader) :
            ~Named(ResultHeader[i], item.HeaderFieldsNot)
       /\ ResultHeader
            = SelectSeq(AddressedHeader, LAMBDA f :
                /\ Len(item.HeaderFields) > 0 => Named(f, item.HeaderFields)
                /\ ~Named(f, item.HeaderFieldsNot))

C7_Witness ==
    /\ Extracted /\ tree = MixedCaseMsg
    /\ item = BodySection(<<>>, "HEADER", <<KTo, KUpper(KSubject)>>,
                          <<ToLower(KSubject)>>, NoPartial)
    /\ result = BytesResult(<<FieldLine(KTo, World), BlankLine>>)

(***************************************************************************)
(* Specification of the flags of one message: store and search by flag     *)
(***************************************************************************)
\* What a store does to the flag named f, told without lower-casing: "on"
\* when it sets or adds a flag equal to f up to case, "off" when it deletes
\* one or sets a list without one, and nothing otherwise.
Touch(was, f, st) ==
    LET has == \E i \in 1..Len(st.Flags) : EqFold(st.Flags[i], f)
    IN  CASE st.Op = "set" -> IF has THEN "on" ELSE "off"
          [] st.Op = "add" -> IF has THEN "on" ELSE was
          [] st.Op = "del" -> IF has THEN "off" ELSE was

FlagCriteria ==
    {[NoCriteria EXCEPT !.Flag = <<f>>] : f \in FlagNames}
        \cup {[NoCriteria EXCEPT !.NotFlag = <<f>>] : f \in FlagNames}

InitFlags ==
    /\ msg = Message(Serialize(PlainMsg))
    /\ op = "none" /\ FlagsIdle /\ SearchIdle /\ ExtractIdle /\ FetchIdle

Store(st) ==
    /\ msg' = [msg EXCEPT !.flags = store(msg.flags, st)]
    /\ op' = "store"
    /\ storeArg' = st
    /\ prevFlags' = msg.flags
    /\ lastStore' = [f \in FlagNames |-> Touch(lastStore[f], f, st)]
    /\ seqNum' = 0 /\ criteria' = NoCriteria /\ found' = <<>>
    /\ UNCHANGED <<extractVars, fetchVars>>

SearchFlag(c) ==
    /\ found' = <<search(msg, 1, c)>>
    /\ criteria' = c
    /\ seqNum' = 1
    /\ op' = "search"
    /\ storeArg' = NoStore /\ prevFlags' = {}
    /\ UNCHANGED <<msg, lastStore, extractVars, fetchVars>>

NextFlags ==
    \/ \E st \in StoreArgs : Store(st)
    \/ \E c \in FlagCriteria : SearchFlag(c)

SpecFlags == InitFlags /\ [][NextFlags]_vars

(***************************************************************************)
(* Properties of store and of search by flag                               *)
(***************************************************************************)
Lowered(flags) == {ToLower(flags[i]) : i \in 1..Len(flags)}

\* C5: set leaves exactly the lower-cased flags of the list, add the union of
\* the prior set with them, delete the prior set without them.
C5_StoreSetAddDelete ==
    op = "store"
    => msg.flags =
         CASE storeArg.Op = "set" -> Lowered(storeArg.Flags)
           [] storeArg.Op = "add" -> prevFlags \cup Lowered(storeArg.Flags)
           [] storeArg.Op = "del" -> prevFlags \ Lowered(storeArg.Flags)

C5_Witness ==
    /\ op = "store"
    /\ storeArg = StoreFlags("set", <<Flagged>>)
    /\ prevFlags = {ToLower(Seen)}
    /\ msg.flags = {ToLower(Flagged)}

\* C10: from an empty flag set, after any stores every stored flag is
\* lower-case, a search requiring flag f matches iff the last store that
\* touched a flag equal to f up to case set or added it, and a search
\* forbidding f answers the opposite.
C10_FlagsFoldCase ==
    /\ \A g \in msg.flags : \A i \in 1..Len(g) : g[i] \notin UpperSet
    /\ op = "search"
        => /\ Len(criteria.Flag) = 1
                => found[1] = (lastStore[criteria.Flag[1]] = "on")
           /\ Len(criteria.NotFlag) = 1
                => found[1] = ~(lastStore[criteria.NotFlag[1]] = "on")

C10_Witness ==
    /\ op = "search"
    /\ criteria.Flag = <<KUpper(Seen)>>
    /\ found = <<TRUE>>
    /\ msg.flags = {ToLower(Seen)}
    /\ lastStore[Flagged] = "off"

(***************************************************************************)
(* Specification of search over messages and criteria trees                *)
(***************************************************************************)
Day(n) == Time(n * UnitsPerDay, 0)

Padding(n) == [i \in 1..n |-> TextLine(<<"x">>)]
\* a buffer of the given length
BufOfSize(n) == <<FieldLine(KSubject, Hello), BlankLine>> \o Padding(n - 2)

DatedBuf ==
    <<FieldLine(KUpper(KSubject), Spam \o World),
      DateLine(KDate, [ok |-> TRUE, inst |-> 2 * UnitsPerDay + 1, off |-> 0]),
      BlankLine, TextLine(Hello), TextLine(World)>>
UndatedBuf ==
    <<FieldLine(KSubject, Hello), DateLine(ToLower(KDate), NoDate), BlankLine,
      TextLine(Spam)>>

SmallMsgs ==
    {[uid |-> u, buf |-> b, t |-> t, flags |-> fl] :
        u \in {1, 7}, b \in {DatedBuf, UndatedBuf},
        t \in {Time(UnitsPerDay + 1, 0), Time(2 * UnitsPerDay, 1)},
        fl \in {{}, {ToLower(Seen)}, {ToLower(Seen), ToLower(Flagged)}}}
SizedMsgs ==
    {[uid |-> 1, buf |-> BufOfSize(n), t |-> Day(1), flags |-> {}] :
        n \in {9, 10, 11, 1000, 1001}}

Larger(n)  == [NoCriteria EXCEPT !.Larger = n]
Smaller(n) == [NoCriteria EXCEPT !.Smaller = n]

SizeLeaves == {Larger(n) : n \in {3, 4, 5, 10, 1000}}
                \cup {Smaller(n) : n \in {4, 5, 6, 10, 1000}}
Leaves ==
    SizeLeaves \cup
    {NoCriteria,
     [NoCriteria EXCEPT !.SeqNum = <<{1, 2}>>],
     [NoCriteria EXCEPT !.SeqNum = <<{2, 3}, {3}>>],
     [NoCriteria EXCEPT !.UID = <<{1}>>],
     [NoCriteria EXCEPT !.UID = <<{7, 8}, {1, 7}>>],
     [NoCriteria EXCEPT !.Since = Day(2)],
     [NoCriteria EXCEPT !.Before = Day(2)],
     [NoCriteria EXCEPT !.Since = Day(1), !.Before = Day(2)],
     [NoCriteria EXCEPT !.Flag = <<Seen>>],
     [NoCriteria EXCEPT !.Flag = <<KUpper(Seen), Flagged>>],
     [NoCriteria EXCEPT !.NotFlag = <<Flagged>>],
     [NoCriteria EXCEPT !.Text = <<KSubject, ToLower(Spam)>>],
     [NoCriteria EXCEPT !.Body = <<KUpper(Hello)>>],
     [NoCriteria EXCEPT !.Header = <<[Key |-> ToLower(KSubject), Value |-> <<>>]>>],
     [NoCriteria EXCEPT !.Header = <<[Key |-> KSubject, Value |-> KUpper(Spam)]>>],
     [NoCriteria EXCEPT !.Header = <<[Key |-> KTo, Value |-> <<>>]>>],
     [NoCriteria EXCEPT !.SentSince = Day(2)],
     [NoCriteria EXCEPT !.SentBefore = Day(2)],
     [NoCriteria EXCEPT !.Flag = <<Seen>>, !.Larger = 4, !.Body = <<Spam>>]}

\* The leaves that composite criteria are paired with.
Operands ==
    {Larger(4), Smaller(10),
     [NoCriteria EXCEPT !.Flag = <<Seen>>],
     [NoCriteria EXCEPT !.UID = <<{1}>>],
     [NoCriteria EXCEPT !.Header = <<[Key |-> KSubject, Value |-> KUpper(Spam)]>>],
     [NoCriteria EXCEPT !.Since = Day(2)]}
SizeOperands == {Larger(1000), Smaller(10), Larger(10)}

\* Leaves, one NOT or one OR of leaves, and two-level trees.
CriteriaOver(L, S) ==
    L \cup {NotOf(a) : a \in L} \cup {OrOf(a, b) : a \in L, b \in S}
        \cup {[a EXCEPT !.Not = <<b>>, !.Or = <<<<b, NotOf(a)>>>>] : a \in L, b \in S}
        \cup {[NoCriteria EXCEPT !.Not = <<OrOf(a, b), NotOf(a)>>] : a \in L, b \in S}
        \cup {[NoCriteria EXCEPT !.Or = <<<<a, b>>, <<NotOf(b), OrOf(a, a)>>>>] :
                a \in L, b \in S}

InitSearch ==
    /\ \/ msg \in SmallMsgs /\ criteria \in CriteriaOver(Leaves, Operands)
       \/ msg \in SizedMsgs /\ criteria \in CriteriaOver(SizeLeaves, SizeOperands)
    /\ seqNum \in {0, 2}
    /\ found = <<>>
    /\ op = "none" /\ FlagsIdle /\ ExtractIdle /\ FetchIdle

Search ==
    /\ found = <<>>
    /\ found' = <<search(msg, seqNum, criteria)>>
    /\ op' = "search"
    /\ UNCHANGED <<msg, seqNum, criteria, flagVars, extractVars, fetchVars>>

NextSearch == Search

SpecSearch == InitSearch /\ [][NextSearch]_vars

\* The populated leaf predicates of one criteria node, as the search rules
\* state them.
LeafHolds(m, n, c) ==
    /\ \A i \in 1..Len(c.SeqNum) : n # 0 /\ n \in c.SeqNum[i]
    /\ \A i \in 1..Len(c.UID) : m.uid \in c.UID[i]
    /\ IsZero(c.Since) \/ CalendarDay(m.t) * UnitsPerDay >= c.Since.inst
    /\ IsZero(c.Before) \/ CalendarDay(m.t) * UnitsPerDay < c.Before.inst
    /\ \A i \in 1..Len(c.Flag) : \E g \in m.flags : EqFold(g, c.Flag[i])
    /\ \A i \in 1..Len(c.NotFlag) : ~\E g \in m.flags : EqFold(g, c.NotFlag[i])
    /\ c.Larger # 0 => Len(m.buf) > c.Larger
    /\ c.Smaller # 0 => Len(m.buf) < c.Smaller
    /\ matchBytes(m.buf, c.Text)
    /\ \A i \in 1..Len(c.Header) :
            matchHeaderField(ReadHeader(NewReader(m.buf)).header, c.Header[i])
    /\ (~IsZero(c.SentSince) \/ ~IsZero(c.SentBefore))
        => LET sent == HeaderDate(ReadHeader(NewReader(m.buf)).header)
           IN  ~sent.err /\ matchDate(sent.t, c.SentSince, c.SentBefore)
    /\ Len(c.Body) > 0 => matchBytes(ReadHeader(NewReader(m.buf)).rest.lines, c.Body)

RECURSIVE Matches(_, _, _)
Matches(m, n, c) ==
    /\ LeafHolds(m, n, c)
    /\ \A i \in 1..Len(c.Not) : ~Matches(m, n, c.Not[i])
    /\ \A i \in 1..Len(c.Or) : Matches(m, n, c.Or[i][1]) \/ Matches(m, n, c.Or[i][2])

\* C6: search answers true iff every populated leaf of the node holds, every
\* NOT child is false and every OR pair has a true side, with larger B
\* holding iff size > B and smaller B iff size < B; OR(larger=1000,
\* smaller=10) matches exactly the sizes above 1000 or below 10.
C6_SearchTree ==
    op = "search"
    => /\ found[1] = Matches(msg, seqNum, criteria)
       /\ criteria = OrOf(Larger(1000), Smaller(10))
            => found[1] = (Len(msg.buf) > 1000 \/ Len(msg.buf) < 10)

C6_Witness ==
    /\ op = "search"
    /\ criteria = OrOf(Larger(1000), Smaller(10))
    /\ Len(msg.buf) = 1001
    /\ found = <<TRUE>>

(***************************************************************************)
(* Specification of matchDate over times and bounds                        *)
(***************************************************************************)
MaxDays == 3
Offsets == {-2, -1, 0, 1}
Times   == {Time(i, o) : i \in 0..(MaxDays * UnitsPerDay), o \in Offsets}
\* since and before of a search: any instant, the zero time when not set
DateBounds == {Time(i, 0) : i \in 0..(MaxDays * UnitsPerDay)}

InitDate ==
    /\ \E t \in Times : msg = [Message(<<>>) EXCEPT !.t = t]
    /\ \E s \in DateBounds, b \in DateBounds :
            criteria = [NoCriteria EXCEPT !.Since = s, !.Before = b]
    /\ seqNum = 0 /\ found = <<>>
    /\ op = "none" /\ FlagsIdle /\ ExtractIdle /\ FetchIdle

MatchDate ==
    /\ found = <<>>
    /\ found' = <<matchDate(msg.t, criteria.Since, criteria.Before)>>
    /\ op' = "date"
    /\ UNCHANGED <<msg, seqNum, criteria, flagVars, extractVars, fetchVars>>

NextDate == MatchDate

SpecDate == InitDate /\ [][NextDate]_vars

\* The calendar date of t: the day whose span in t's zone holds t.
DateOf(t) ==
    CHOOSE d \in -1..(MaxDays + 1) :
        d * UnitsPerDay <= t.inst + t.off /\ t.inst + t.off < (d + 1) * UnitsPerDay

\* C8: matchDate gives the same answer for any two times of the same
\* calendar date, whatever their time of day and zone, and the answer is
\* true iff that date (its midnight UTC) lies in [since, before) for the
\* bounds that are set.
C8_CalendarDateOnly ==
    op = "date"
    => /\ \A t2 \in Times :
            DateOf(t2) = DateOf(msg.t)
                => matchDate(t2, criteria.Since, criteria.Before) = found[1]
       /\ found[1] =
            (/\ IsZero(criteria.Since)
                    \/ DateOf(msg.t) * UnitsPerDay >= criteria.Since.inst
             /\ IsZero(criteria.Before)
                    \/ DateOf(msg.t) * UnitsPerDay < criteria.Before.inst)

C8_Witness ==
    /\ op = "date"
    /\ msg.t = Time(2 * UnitsPerDay - 1, 1)
    /\ criteria.Since = Day(2) /\ criteria.Before = Day(3)
    /\ found = <<TRUE>>

(***************************************************************************)
(* imapmemserver: message.fetch, step by step on the response writer       *)
(***************************************************************************)
Call(name, i, n, err) == [call |-> name, i |-> i, n |-> n, err |-> err]

\* Lines 29-45: the attributes, in this order, each when asked for.
AttrCalls(m, o) ==
    <<Call("WriteUID", 0, m.uid, FALSE)>>
      \o (IF o.Flags THEN <<Call("WriteFlags", 0, Cardinality(m.flags), FALSE)>>
          ELSE <<>>)
      \o (IF o.InternalDate THEN <<Call("WriteInternalDate", 0, m.t.inst, FALSE)>>
          ELSE <<>>)
      \o (IF o.RFC822Size THEN <<Call("WriteRFC822Size", 0, Len(m.buf), FALSE)>>
          ELSE <<>>)
      \o (IF o.Envelope THEN <<Call("WriteEnvelope", 0, 0, FALSE)>> ELSE <<>>)
      \o (IF o.BodyStructure THEN <<Call("WriteBodyStructure", 0, 0, FALSE)>>
          ELSE <<>>)

\* Faulty variant of sectionError: the error of Close dropped.
sectionErrorOfWrite(we, ce) == we

\* Lines 52-57: the error that ends the loop, if any.
sectionError(we, ce) == IF we # NoError THEN we ELSE ce

FetchAttrs ==
    /\ pc = "attrs"
    /\ wlog' = wlog \o AttrCalls(msg, options)
    /\ secIdx' = 1
    /\ pc' = "section"
    /\ UNCHANGED <<msg, op, options, writeErr, ret, extractVars, flagVars, searchVars>>

\* buf := ExtractBodySection(...); wc := w.WriteBodySection(bs, len(buf))
OpenSection ==
    /\ pc = "section"
    /\ secIdx <= Len(options.BodySection)
    /\ LET buf == ExtractBodySection(NewReader(msg.buf), options.BodySection[secIdx])
       IN  wlog' = Append(wlog, Call("WriteBodySection", secIdx, Len(buf.b), FALSE))
    /\ pc' = "write"
    /\ UNCHANGED <<msg, op, options, secIdx, writeErr, ret, extractVars, flagVars,
                   searchVars>>

\* _, writeErr := wc.Write(buf): the writer decides whether it fails
WriteSection(fails) ==
    /\ pc = "write"
    /\ writeErr' = IF fails THEN Error("Write", secIdx) ELSE NoError
    /\ wlog' = Append(wlog, Call("Write", secIdx, 0, fails))
    /\ pc' = "close"
    /\ UNCHANGED <<msg, op, options, secIdx, ret, extractVars, flagVars, searchVars>>

\* closeErr := wc.Close(), then the two checks that return
CloseSection(fails) ==
    /\ pc = "close"
    /\ wlog' = Append(wlog, Call("Close", secIdx, 0, fails))
    /\ LET closeErr == IF fails THEN Error("Close", secIdx) ELSE NoError
           e        == sectionError(writeErr, closeErr)
       IN  IF e # NoError
           THEN ret' = e /\ pc' = "done" /\ secIdx' = secIdx
           ELSE ret' = ret /\ pc' = "section" /\ secIdx' = secIdx + 1
    /\ writeErr' = NoError
    /\ UNCHANGED <<msg, op, options, extractVars, flagVars, searchVars>>

\* return w.Close()
CloseWriter(fails) ==
    /\ pc = "section"
    /\ secIdx > Len(options.BodySection)
    /\ wlog' = Append(wlog, Call("CloseWriter", 0, 0, fails))
    /\ ret' = IF fails THEN Error("CloseWriter", 0) ELSE NoError
    /\ pc' = "done"
    /\ UNCHANGED <<msg, op, options, secIdx, writeErr, extractVars, flagVars,
                   searchVars>>

MaxSections == 2
FetchItems ==
    {PlainRequest(<<>>), PlainRequest(<<2>>),
     BodySection(<<1>>, "HEADER", <<KSubject>>, <<>>, NoPartial)}
RECURSIVE SectionLists(_)
SectionLists(n) ==
    IF n = 0 THEN {<<>>}
    ELSE SectionLists(n - 1)
            \cup {Append(l, it) : l \in {x \in SectionLists(n - 1) : Len(x) = n - 1},
                                  it \in FetchItems}
\* which attributes are asked for: none, all, and two mixes
AttrOptions ==
    {NoOptions,
     [NoOptions EXCEPT !.Flags = TRUE, !.RFC822Size = TRUE],
     [NoOptions EXCEPT !.InternalDate = TRUE, !.Envelope = TRUE,
                       !.BodyStructure = TRUE],
     [NoOptions EXCEPT !.Flags = TRUE, !.InternalDate = TRUE, !.RFC822Size = TRUE,
                       !.Envelope = TRUE, !.BodyStructure = TRUE]}
FetchOptions ==
    {[a EXCEPT !.BodySection = l] : a \in AttrOptions, l \in SectionLists(MaxSections)}

InitFetch ==
    /\ msg \in {[Message(Serialize(t)) EXCEPT !.flags = {ToLower(Seen)}] :
                    t \in {PlainMsg, Mixed2}}
    /\ options \in FetchOptions
    /\ pc = "attrs" /\ secIdx = 0 /\ writeErr = NoError /\ wlog = <<>>
    /\ ret = NoError
    /\ op = "none" /\ FlagsIdle /\ SearchIdle /\ ExtractIdle

NextFetch ==
    \/ FetchAttrs
    \/ OpenSection
    \/ \E fails \in BOOLEAN : WriteSection(fails)
    \/ \E fails \in BOOLEAN : CloseSection(fails)
    \/ \E fails \in BOOLEAN : CloseWriter(fails)

SpecFetch == InitFetch /\ [][NextFetch]_vars

(***************************************************************************)
(* Properties of fetch                                                     *)
(***************************************************************************)
Positions    == 1..Len(wlog)
IsOpen(p)    == wlog[p].call = "WriteBodySection"
IsFailure(p) == wlog[p].call \in {"Write", "Close"} /\ wlog[p].err
OpensBefore(p) == Cardinality({q \in 1..(p - 1) : IsOpen(q)})

\* C9: the sections are written in the order requested; a section writer
\* that was opened is closed before the next one is opened and before fetch
\* returns, also when its write failed; at the first section whose write or
\* close fails fetch returns that error, opens no later section writer and
\* does not close the response writer.
C9_SectionWriters ==
    /\ \A p \in Positions :
        IsOpen(p) =>
            /\ wlog[p].i = OpensBefore(p) + 1
            /\ wlog[p].n =
                 Len(Section(options.BodySection[wlog[p].i]).b)
            /\ (pc = "done" \/ \E q \in Positions : q > p /\ IsOpen(q))
                => \E r \in Positions :
                        /\ r > p
                        /\ wlog[r].call = "Close" /\ wlog[r].i = wlog[p].i
                        /\ \A q \in (p + 1)..r : ~IsOpen(q)
    /\ \A p \in Positions :
        IsFailure(p) =>
            /\ \A q \in Positions :
                    q > p => ~IsOpen(q) /\ wlog[q].call # "CloseWriter"
            /\ (pc = "done" /\ \A q \in 1..(p - 1) : ~IsFailure(q))
                => ret = Error(wlog[p].call, wlog[p].i)
    /\ (pc = "done" /\ \A p \in Positions : ~IsFailure(p))
        => /\ OpensBefore(Len(wlog) + 1) = Len(options.BodySection)
           /\ wlog[Len(wlog)].call = "CloseWriter"

C9_Witness ==
    /\ pc = "done"
    /\ Len(options.BodySection) = 2
    /\ ret = Error("Write", 2)
    /\ \E p \in Positions : wlog[p] = Call("Close", 2, 0, TRUE)

====
